---- MODULE Spec2Model ----
(***************************************************************************)
(* Model of the railbird OCR service (backend/src/services/ocr.service.ts): *)
(* the field extractors, the race assembler (extractRaces) and the          *)
(* document parser (processFile and the paths below it).                    *)
(*                                                                          *)
(* Texts and lines are TLA+ strings; a character is a string of length 1.   *)
(* The regular expressions of the source are written out as matchers over   *)
(* character positions (from 1; the position Len(s) + 1 is the end of s).   *)
(* Confidence values are kept in hundredths (0.9 is 90).                    *)
(***************************************************************************)
EXTENDS Integers, Sequences, FiniteSets, TLC

----------------------------------------------------------------------------
(* Characters, character classes and the building blocks of the matchers.  *)
(* A matcher works on the characters of a string, Chars(str), a sequence   *)
(* of strings of length 1.                                                 *)

Chars(str) == [p \in 1..Len(str) |-> SubSeq(str, p, p)] \o <<>>

DigitChars == {"0", "1", "2", "3", "4", "5", "6", "7", "8", "9"}
UpperChars == {"A", "B", "C", "D", "E", "F", "G", "H", "I", "J", "K", "L", "M",
               "N", "O", "P", "Q", "R", "S", "T", "U", "V", "W", "X", "Y", "Z"}
LowerChars == {"a", "b", "c", "d", "e", "f", "g", "h", "i", "j", "k", "l", "m",
               "n", "o", "p", "q", "r", "s", "t", "u", "v", "w", "x", "y", "z"}
\* \s
SpaceChars == {" ", "\t", "\n", "\r"}
\* \w
WordChars == DigitChars \cup UpperChars \cup LowerChars \cup {"_"}
\* [A-Z\s'] under the i flag
NameChars == UpperChars \cup LowerChars \cup SpaceChars \cup {"'"}
\* [\d,]
PurseChars == DigitChars \cup {","}

UpperOf ==
    ("a" :> "A") @@ ("b" :> "B") @@ ("c" :> "C") @@ ("d" :> "D") @@ ("e" :> "E") @@
    ("f" :> "F") @@ ("g" :> "G") @@ ("h" :> "H") @@ ("i" :> "I") @@ ("j" :> "J") @@
    ("k" :> "K") @@ ("l" :> "L") @@ ("m" :> "M") @@ ("n" :> "N") @@ ("o" :> "O") @@
    ("p" :> "P") @@ ("q" :> "Q") @@ ("r" :> "R") @@ ("s" :> "S") @@ ("t" :> "T") @@
    ("u" :> "U") @@ ("v" :> "V") @@ ("w" :> "W") @@ ("x" :> "X") @@ ("y" :> "Y") @@
    ("z" :> "Z")

ToUpperCh(c) == IF c \in LowerChars THEN UpperOf[c] ELSE c

DigitVal ==
    ("0" :> 0) @@ ("1" :> 1) @@ ("2" :> 2) @@ ("3" :> 3) @@ ("4" :> 4) @@
    ("5" :> 5) @@ ("6" :> 6) @@ ("7" :> 7) @@ ("8" :> 8) @@ ("9" :> 9)

Min(S) == CHOOSE x \in S : \A y \in S : x <= y

\* The character of s at p is of class C.
IsAt(s, p, C) == p >= 1 /\ p <= Len(s) /\ s[p] \in C

\* The end of the longest run of characters of class C that starts at p
\* (a greedy C* at p): the first position at or after p not holding a C.
RECURSIVE RunEnd(_, _, _)
RunEnd(s, p, C) ==
    IF p > Len(s) THEN Len(s) + 1
    ELSE IF s[p] \notin C THEN p
    ELSE RunEnd(s, p + 1, C)

\* The same towards the front: the position before the longest run of
\* characters of class C that ends at p.
RECURSIVE RunStart(_, _, _)
RunStart(s, p, C) ==
    IF p < 1 THEN 0
    ELSE IF s[p] \notin C THEN p
    ELSE RunStart(s, p - 1, C)

\* The first position at or after p that holds a character of class C, the
\* end of s when there is none.
FindIn(s, p, C) ==
    LET at == {q \in p..Len(s) : s[q] \in C}
    IN  IF at = {} THEN Len(s) + 1 ELSE Min(at)

\* The leftmost match of an unanchored pattern: the first of the positions
\* at which the pattern matches; 0 when it matches nowhere.
FirstMatch(at) == IF at = {} THEN 0 ELSE Min(at)

\* The literal, given by its characters in upper case, stands at p, compared
\* without case.
LitAt(s, p, lit) ==
    /\ p >= 1
    /\ p + Len(lit) - 1 <= Len(s)
    /\ \A k \in 1..Len(lit) : ToUpperCh(s[p + k - 1]) = lit[k]

\* String.prototype.toUpperCase, on characters
ToUpperChars(s) == [p \in 1..Len(s) |-> ToUpperCh(s[p])] \o <<>>

\* The characters u hold the characters lit, in a row.
Holds(u, lit) ==
    \E p \in 1..(Len(u) - Len(lit) + 1) : SubSeq(u, p, p + Len(lit) - 1) = lit

\* String.prototype.trim
Trim(str) ==
    LET s == Chars(str)
    IN  SubSeq(str, RunEnd(s, 1, SpaceChars), RunStart(s, Len(s), SpaceChars))

\* parseInt of a string given by its characters, for the strings the service
\* hands it (digits, possibly none): the value of the leading digits, NaN
\* when there is none.
NaN == 0 - 1

RECURSIVE DigitsValue(_, _, _)
DigitsValue(s, p, acc) ==
    IF ~IsAt(s, p, DigitChars) THEN acc
    ELSE DigitsValue(s, p + 1, 10 * acc + DigitVal[s[p]])

ParseIntChars(s) == IF ~IsAt(s, 1, DigitChars) THEN NaN ELSE DigitsValue(s, 1, 0)

parseInt(str) == ParseIntChars(Chars(str))

\* An optional value (null, undefined or a missing property against a value):
\* None when absent, Some(v) when present.
None == <<>>
Some(v) == <<v>>
IsSome(o) == o # <<>>
Val(o) == o[1]

----------------------------------------------------------------------------
(* Field extractors.                                                       *)

LitRACE == Chars("RACE")
LitST == Chars("ST")
LitND == Chars("ND")
LitRD == Chars("RD")
LitTH == Chars("TH")

\* RACE\s+(\d+) matched at p: the start and the end of the digits captured,
\* <<0, 0>> for no match.
HeaderAlt1(s, p) ==
    IF ~LitAt(s, p, LitRACE) THEN <<0, 0>>
    ELSE LET w == RunEnd(s, p + 4, SpaceChars)
             d == RunEnd(s, w, DigitChars)
         IN  IF w > p + 4 /\ d > w THEN <<w, d>> ELSE <<0, 0>>

\* (\d+)(?:st|nd|rd|th)?\s+RACE matched at p: the start and the end of the
\* digits captured, <<0, 0>> for no match.
HeaderAlt2(s, p) ==
    IF s[p] \notin DigitChars THEN <<0, 0>>
    ELSE LET d == RunEnd(s, p, DigitChars)
             x == IF \/ LitAt(s, d, LitST) \/ LitAt(s, d, LitND)
                     \/ LitAt(s, d, LitRD) \/ LitAt(s, d, LitTH)
                  THEN d + 2 ELSE d
             w == RunEnd(s, x, SpaceChars)
         IN  IF w > x /\ LitAt(s, w, LitRACE) THEN <<p, d>> ELSE <<0, 0>>

HeaderAt(s, p) ==
    IF HeaderAlt1(s, p)[1] > 0 THEN HeaderAlt1(s, p) ELSE HeaderAlt2(s, p)

HeaderEnd(s, p) == HeaderAt(s, p)[2]

\* line.match(raceHeaderRegex): raceMatch[1] || raceMatch[2] of the leftmost
\* match, None when the line has no match.
raceHeaderMatch(line) ==
    LET s == Chars(line)
        p == FirstMatch({q \in 1..Len(s) : HeaderEnd(s, q) > 0})
    IN  IF p = 0 THEN None
        ELSE Some(SubSeq(line, HeaderAt(s, p)[1], HeaderAt(s, p)[2] - 1))

\* (\d+-\d+|\d+\/\d+) matched at p: the position after it, 0 for no match.
OddsEnd(s, p) ==
    LET a == RunEnd(s, p, DigitChars)
        b == RunEnd(s, a + 1, DigitChars)
    IN  IF a > p /\ IsAt(s, a, {"-", "/"}) /\ b > a + 1 THEN b ELSE 0

\* The horse pattern
\*   ^(\d{1,2})\.?\s+([A-Z\s']+?)\s*(?:\(([^)]+)\))?\s*(?:(\d+-\d+|\d+\/\d+))?\s*$
\* The number is the leading digits (one or two); \s+ and the lazy name
\* share the run of name characters that follows, which must begin with a
\* space and hold at least two characters, and the name group differs from
\* that run by spaces only; the jockey runs to the first ")"; the odds, if
\* any, are followed by spaces only.
HorseMatch(line) ==
    LET s  == Chars(line)
        n  == RunEnd(s, 1, DigitChars)
        p2 == IF IsAt(s, n, {"."}) THEN n + 1 ELSE n
        q  == RunEnd(s, p2, NameChars)
        c  == FindIn(s, q + 1, {")"})
        parenOk == IsAt(s, q, {"("}) /\ c <= Len(s) /\ c > q + 1
        r2 == IF parenOk THEN c + 1 ELSE q
        r3 == RunEnd(s, r2, SpaceChars)
        e  == OddsEnd(s, r3)
        r4 == IF e > 0 THEN e ELSE r3
        ok == /\ n \in {2, 3}
              /\ IsAt(s, p2, SpaceChars)
              /\ q >= p2 + 2
              /\ RunEnd(s, r4, SpaceChars) = Len(s) + 1
    IN  IF ~ok THEN [ok |-> FALSE]
        ELSE [ok     |-> TRUE,
              number |-> SubSeq(line, 1, n - 1),
              name   |-> SubSeq(line, p2, q - 1),
              jockey |-> IF parenOk THEN Some(SubSeq(line, q + 1, c - 1)) ELSE None,
              odds   |-> IF e > 0 THEN Some(SubSeq(line, r3, e - 1)) ELSE None]

\* extractHorseFromLine with the groups of the match taken as they are.
extractHorseWithoutDefaults(line) ==
    LET m == HorseMatch(line)
    IN  IF ~m.ok THEN None
        ELSE Some([id       |-> "horse-" \o m.number,
                   number   |-> parseInt(m.number),
                   name     |-> Trim(m.name),
                   jockey   |-> IF IsSome(m.jockey) THEN Val(m.jockey) ELSE "",
                   trainer  |-> "Unknown",
                   weight   |-> 120,
                   odds     |-> m.odds,
                   speedFigures     |-> <<>>,
                   pastPerformances |-> <<>>])

\* extractHorseFromLine: the horse of the line, None when it is no entry.
extractHorseFromLine(line) ==
    LET m == HorseMatch(line)
    IN  IF ~m.ok THEN None
        ELSE Some([id       |-> "horse-" \o m.number,
                   number   |-> parseInt(m.number),
                   name     |-> Trim(m.name),
                   jockey   |-> IF IsSome(m.jockey) /\ Trim(Val(m.jockey)) # ""
                                THEN Trim(Val(m.jockey)) ELSE "Unknown",
                   trainer  |-> "Unknown",
                   weight   |-> 120,
                   odds     |-> IF IsSome(m.odds) THEN Some(Trim(Val(m.odds)))
                                ELSE None,
                   speedFigures     |-> <<>>,
                   pastPerformances |-> <<>>])

LitFURLONG == Chars("FURLONG")
LitMILE == Chars("MILE")
LitS == Chars("S")
LitF == Chars("F")
LitM == Chars("M")

\* (\d+(?:\.\d+)?\s*(?:furlongs?|miles?|f|m)) matched at p: the position
\* after the match, 0 for no match.
DistanceEnd(s, p) ==
    IF s[p] \notin DigitChars THEN 0
    ELSE LET d1 == RunEnd(s, p, DigitChars)
             d2 == IF IsAt(s, d1, {"."}) /\ IsAt(s, d1 + 1, DigitChars)
                   THEN RunEnd(s, d1 + 1, DigitChars) ELSE d1
             w  == RunEnd(s, d2, SpaceChars)
         IN  IF LitAt(s, w, LitFURLONG)
             THEN (IF LitAt(s, w + 7, LitS) THEN w + 8 ELSE w + 7)
             ELSE IF LitAt(s, w, LitMILE)
             THEN (IF LitAt(s, w + 4, LitS) THEN w + 5 ELSE w + 4)
             ELSE IF LitAt(s, w, LitF) \/ LitAt(s, w, LitM) THEN w + 1
             ELSE 0

extractDistance(text) ==
    LET s == Chars(text)
        p == FirstMatch({q \in 1..Len(s) : DistanceEnd(s, q) > 0})
    IN  IF p = 0 THEN None ELSE Some(SubSeq(text, p, DistanceEnd(s, p) - 1))

LitTURF == Chars("TURF")
LitGRASS == Chars("GRASS")
LitSYNTHETIC == Chars("SYNTHETIC")
LitPOLY == Chars("POLY")
LitDIRT == Chars("DIRT")
LitMAIN == Chars("MAIN")

\* extractSurface with the test of dirt/main made first.
extractSurfaceDirtFirst(text) ==
    LET u == ToUpperChars(Chars(text))
    IN  IF Holds(u, LitDIRT) \/ Holds(u, LitMAIN) THEN Some("dirt")
        ELSE IF Holds(u, LitTURF) \/ Holds(u, LitGRASS) THEN Some("turf")
        ELSE IF Holds(u, LitSYNTHETIC) \/ Holds(u, LitPOLY)
        THEN Some("synthetic")
        ELSE None

\* Each test is without case: it is made on the text in upper case.
extractSurface(text) ==
    LET u == ToUpperChars(Chars(text))
    IN  IF Holds(u, LitTURF) \/ Holds(u, LitGRASS) THEN Some("turf")
        ELSE IF Holds(u, LitSYNTHETIC) \/ Holds(u, LitPOLY)
        THEN Some("synthetic")
        ELSE IF Holds(u, LitDIRT) \/ Holds(u, LitMAIN) THEN Some("dirt")
        ELSE None

\* The least amount that is not accepted as a purse.
PurseFloor == 1000

\* /\$?([\d,]+)/: the leftmost match captures the run of digits and commas
\* that starts at the first digit or comma of the text; replace(/,/g, '')
\* takes the commas out of it.
extractPurse(text) ==
    LET s == Chars(text)
        p == FindIn(s, 1, PurseChars)
        g == SubSeq(s, p, RunEnd(s, p, PurseChars) - 1)
        amount == ParseIntChars(SelectSeq(g, LAMBDA c : c # ","))
    IN  IF p <= Len(s) /\ amount # NaN /\ amount > PurseFloor
        THEN Some(amount) ELSE None

trackPatterns ==
    <<"SANTA ANITA", "GULFSTREAM", "CHURCHILL DOWNS", "BELMONT", "SARATOGA",
      "KEENELAND", "OAKLAWN", "FAIR GROUNDS", "AQUEDUCT", "WOODBINE">>

trackPatternChars ==
    [k \in 1..Len(trackPatterns) |-> Chars(trackPatterns[k])] \o <<>>

\* The first pattern, in list order, found in the text; match[0].toUpperCase()
\* is the pattern's own text in upper case.
extractTrack(text) ==
    LET u == ToUpperChars(Chars(text))
        hit == {k \in 1..Len(trackPatterns) : Holds(u, trackPatternChars[k])}
    IN  IF hit = {} THEN None ELSE Some(trackPatterns[Min(hit)])

----------------------------------------------------------------------------
(* Dates: the three shapes of extractDate, the engine's Date parsing of    *)
(* each and Date.prototype.toISOString().split('T')[0].                    *)

DigitStr == <<"0", "1", "2", "3", "4", "5", "6", "7", "8", "9">>

RECURSIVE NatStr(_)
NatStr(n) ==
    IF n < 10 THEN DigitStr[n + 1] ELSE NatStr(n \div 10) \o DigitStr[(n % 10) + 1]

RECURSIVE PadLeft(_, _)
PadLeft(str, width) ==
    IF Len(str) >= width THEN str ELSE PadLeft("0" \o str, width)

IsLeap(y) == (y % 4 = 0 /\ y % 100 # 0) \/ y % 400 = 0

DaysIn(y, m) ==
    IF m = 2 THEN (IF IsLeap(y) THEN 29 ELSE 28)
    ELSE IF m \in {4, 6, 9, 11} THEN 30 ELSE 31

\* A day of the month past the month's end counts on into the next month
\* (the engine accepts a day of 1..31 in any month).
Normalize(d) ==
    IF d.day <= DaysIn(d.year, d.month) THEN d
    ELSE IF d.month = 12
         THEN [year |-> d.year + 1, month |-> 1, day |-> d.day - 31]
    ELSE [year |-> d.year, month |-> d.month + 1,
          day |-> d.day - DaysIn(d.year, d.month)]

PrevDay(d) ==
    IF d.day > 1 THEN [d EXCEPT !.day = d.day - 1]
    ELSE IF d.month > 1
         THEN [year |-> d.year, month |-> d.month - 1,
               day |-> DaysIn(d.year, d.month - 1)]
    ELSE [year |-> d.year - 1, month |-> 12, day |-> 31]

\* toISOString().split('T')[0] of a date given by its UTC calendar day.
IsoDay(d) ==
    PadLeft(NatStr(d.year), 4) \o "-" \o PadLeft(NatStr(d.month), 2)
        \o "-" \o PadLeft(NatStr(d.day), 2)

\* A date string without a time is local midnight unless it is in ISO form,
\* which is UTC midnight; local midnight is the previous UTC day in a zone
\* ahead of UTC.
LocalMidnightUtcDay(d, zoneAhead) == IF zoneAhead THEN PrevDay(d) ELSE d

\* Two-digit years of the non-ISO forms are taken into 1950..2049.
LegacyYear(y) == IF y <= 49 THEN y + 2000 ELSE IF y <= 99 THEN y + 1900 ELSE y

ValidMonthDay(m, d) == m >= 1 /\ m <= 12 /\ d >= 1 /\ d <= 31

\* (\w+\s+\d{1,2},\s+\d{4}) matched at p: the position after it, 0 for none.
\* Only the start of a run of word characters is tried: \w+ has to take the
\* run to its end for \s+ to follow, so a match from inside a run comes with
\* a match from the run's start, and the leftmost match is what is asked for.
LongDateEnd(s, p) ==
    IF s[p] \notin WordChars \/ IsAt(s, p - 1, WordChars) THEN 0
    ELSE LET a == RunEnd(s, p, WordChars)
             b == RunEnd(s, a, SpaceChars)
             c == RunEnd(s, b, DigitChars)
             e == RunEnd(s, c + 1, SpaceChars)
             f == RunEnd(s, e, DigitChars)
         IN  IF /\ b > a /\ c - b \in {1, 2} /\ IsAt(s, c, {","})
                /\ e > c + 1 /\ f - e >= 4
             THEN e + 4 ELSE 0

MonthNames ==
    <<Chars("JAN"), Chars("FEB"), Chars("MAR"), Chars("APR"), Chars("MAY"),
      Chars("JUN"), Chars("JUL"), Chars("AUG"), Chars("SEP"), Chars("OCT"),
      Chars("NOV"), Chars("DEC")>>

\* new Date("<word> <D>, <YYYY>"): the word names a month by its first three
\* letters; any other word leaves the numbers without a month and the string
\* is no date.
LongDateParse(str, zoneAhead) ==
    LET s == Chars(str)
        a == RunEnd(s, 1, WordChars)
        b == RunEnd(s, a, SpaceChars)
        c == RunEnd(s, b, DigitChars)
        e == RunEnd(s, c + 1, SpaceChars)
        ms == {k \in 1..12 : LitAt(s, 1, MonthNames[k])}
        d == ParseIntChars(SubSeq(s, b, c - 1))
        y == ParseIntChars(SubSeq(s, e, e + 3))
    IN  IF ms = {} \/ ~ValidMonthDay(Min(ms), d) THEN None
        ELSE Some(IsoDay(LocalMidnightUtcDay(
                 Normalize([year |-> LegacyYear(y), month |-> Min(ms), day |-> d]),
                 zoneAhead)))

\* (\d{1,2}\/\d{1,2}\/\d{4}) matched at p: the position after it, 0 for none.
SlashDateEnd(s, p) ==
    IF s[p] \notin DigitChars THEN 0
    ELSE LET a == RunEnd(s, p, DigitChars)
             b == RunEnd(s, a + 1, DigitChars)
             c == RunEnd(s, b + 1, DigitChars)
         IN  IF /\ a - p \in {1, 2} /\ IsAt(s, a, {"/"})
                /\ b - (a + 1) \in {1, 2} /\ IsAt(s, b, {"/"})
                /\ c - (b + 1) >= 4
             THEN b + 5 ELSE 0

\* new Date("<M>/<D>/<YYYY>"): month first, local midnight.
SlashDateParse(str, zoneAhead) ==
    LET s == Chars(str)
        a == RunEnd(s, 1, DigitChars)
        b == RunEnd(s, a + 1, DigitChars)
        m == ParseIntChars(SubSeq(s, 1, a - 1))
        d == ParseIntChars(SubSeq(s, a + 1, b - 1))
        y == ParseIntChars(SubSeq(s, b + 1, b + 4))
    IN  IF ~ValidMonthDay(m, d) THEN None
        ELSE Some(IsoDay(LocalMidnightUtcDay(
                 Normalize([year |-> LegacyYear(y), month |-> m, day |-> d]),
                 zoneAhead)))

\* (\d{4}-\d{2}-\d{2}) matched at p: the position after it, 0 for none.
IsoDateEnd(s, p) ==
    IF /\ s[p] \in DigitChars
       /\ p + 9 <= Len(s)
       /\ \A k \in {1, 2, 3, 5, 6, 8, 9} : s[p + k] \in DigitChars
       /\ s[p + 4] = "-" /\ s[p + 7] = "-"
    THEN p + 10 ELSE 0

\* new Date("<YYYY>-<MM>-<DD>"): UTC midnight.
IsoDateParse(str) ==
    LET s == Chars(str)
        y == ParseIntChars(SubSeq(s, 1, 4))
        m == ParseIntChars(SubSeq(s, 6, 7))
        d == ParseIntChars(SubSeq(s, 9, 10))
    IN  IF ~ValidMonthDay(m, d) THEN None
        ELSE Some(IsoDay(Normalize([year |-> y, month |-> m, day |-> d])))

\* match[1] of the leftmost match of each of the three date patterns.
LongDateMatch(text) ==
    LET s == Chars(text)
        p == FirstMatch({q \in 1..Len(s) : LongDateEnd(s, q) > 0})
    IN  IF p = 0 THEN None ELSE Some(SubSeq(text, p, LongDateEnd(s, p) - 1))

SlashDateMatch(text) ==
    LET s == Chars(text)
        p == FirstMatch({q \in 1..Len(s) : SlashDateEnd(s, q) > 0})
    IN  IF p = 0 THEN None ELSE Some(SubSeq(text, p, SlashDateEnd(s, p) - 1))

IsoDateMatch(text) ==
    LET s == Chars(text)
        p == FirstMatch({q \in 1..Len(s) : IsoDateEnd(s, q) > 0})
    IN  IF p = 0 THEN None ELSE Some(SubSeq(text, p, IsoDateEnd(s, p) - 1))

\* extractDate: the first of the three shapes, in order, that is found in the
\* text and parses to a date. zoneAhead: the process runs in a time zone
\* ahead of UTC.
extractDate(text, zoneAhead) ==
    LET l == LongDateMatch(text)
        sl == SlashDateMatch(text)
        iso == IsoDateMatch(text)
    IN  IF IsSome(l) /\ IsSome(LongDateParse(Val(l), zoneAhead))
        THEN LongDateParse(Val(l), zoneAhead)
        ELSE IF IsSome(sl) /\ IsSome(SlashDateParse(Val(sl), zoneAhead))
        THEN SlashDateParse(Val(sl), zoneAhead)
        ELSE IF IsSome(iso) THEN IsoDateParse(Val(iso))
        ELSE None

----------------------------------------------------------------------------
(* State.                                                                  *)

VARIABLES
    fileName,       \* processFile: fileName
    visionClient,   \* whether the constructor made a cloud client
    rawText,        \* the text of the document, as a collaborator yielded it
    clock,          \* the UTC day of the last reading of the clock
    pc,             \* the position of the call
    path,           \* the path the call is on
    lines,          \* extractRaces: lines
    i,              \* extractRaces: the index of the line at hand (from 1)
    races,          \* extractRaces: races
    currentRace,    \* extractRaces: currentRace (None for null)
    currentHorses,  \* extractRaces: currentHorses
    card,           \* the value parseRaceData returned (None before it has)
    calls,          \* the collaborators called so far
    workers,        \* the number of workers createWorker has yielded
    terminations,   \* the number of calls of worker.terminate
    detections,     \* processWithGoogleVision: detections.length
    engineConfidence, \* processWithTesseract: data.confidence
    completion,     \* the pending return or throw of the function under way
    result,         \* the value processFile resolved to (None before it has)
    previous,       \* the card an earlier call of parseRaceData returned
    jobs,           \* the calls of processFile under way side by side
    disk,           \* the files of the upload directory, by path
    uploads,        \* UploadController: the requests and their fileUpload records
    emitted,        \* the file_processing events given to io.emit, in order
    listeners,      \* WebSocketService: listeners, the callbacks of each event
    dispatch        \* WebSocketService.emit: the forEach under way or last run

parseVars == <<lines, i, races, currentRace, currentHorses, card>>

fileVars == <<fileName, visionClient, calls, workers, terminations, detections,
              engineConfidence, completion, result>>

\* What one call, taken by itself, has no hand in.
\* What the OCR service has no hand in: the upload controller and the client.
outside == <<uploads, emitted, listeners, dispatch>>

elsewhere == <<previous, jobs, disk, outside>>

vars == <<fileName, visionClient, rawText, clock, pc, path, lines, i, races,
          currentRace, currentHorses, card, calls, workers, terminations,
          detections, engineConfidence, completion, result, previous, jobs,
          disk, uploads, emitted, listeners, dispatch>>

\* new Date().toISOString().split('T')[0]: the UTC days the clock may show
\* while a call runs (a call may begin before midnight and go on after it).
ClockDays == <<"2026-11-04", "2026-11-05">>
ClockDay(c) == ClockDays[c]
LastDay == Len(ClockDays)

----------------------------------------------------------------------------
(* extractRaces and parseRaceData.                                         *)

\* text.split('\n')
RECURSIVE SplitFrom(_, _, _)
SplitFrom(str, s, p) ==
    LET nl == FindIn(s, p, {"\n"})
    IN  IF nl > Len(s) THEN <<SubSeq(str, p, Len(s))>>
        ELSE <<SubSeq(str, p, nl - 1)>> \o SplitFrom(str, s, nl + 1)

Split(str) == SplitFrom(str, Chars(str), 1)

\* .map(line => line.trim()).filter(line => line.length > 0)
TrimmedNonEmpty(ls) ==
    SelectSeq([k \in 1..Len(ls) |-> Trim(ls[k])], LAMBDA l : Len(l) > 0)

SplitLines(s) == TrimmedNonEmpty(Split(s))

----------------------------------------------------------------------------
(* The texts the calls are given.                                          *)

\* The end-to-end example.
ExampleText ==
    "SANTA ANITA\nMarch 15, 2024\nRACE 1\n6 Furlongs Dirt Purse $40,000\n"
    \o "1. MIDNIGHT RUN (J. Smith) 5-1\n2. SOLAR FLARE (A. Lee) 3-1\nRACE 2"

\* Lines that texts are made of: headers of both shapes, one of them of the
\* shape of a horse entry as well; a horse entry; condition lines, one of
\* them of the shape of a horse entry; a blank line.
LineChoices ==
    {"RACE 1", " 2nd race", "3 RACE", "1. MIDNIGHT RUN (J. Smith) 5-1",
     "7 Furlongs Turf", ""}

\* The most lines of a text made of LineChoices.
MaxLines == 3

RECURSIVE JoinLines(_)
JoinLines(ls) ==
    IF Len(ls) = 0 THEN ""
    ELSE IF Len(ls) = 1 THEN ls[1]
    ELSE ls[1] \o "\n" \o JoinLines(Tail(ls))

TextsOf(choices, maxLines) ==
    {JoinLines(ls) : ls \in UNION {[1..n -> choices] : n \in 0..maxLines}}

\* A card of three races, each with an entry.
ThreeRaceText ==
    "RACE 1\n4 LUCKY STAR\n2nd race\n5. BOLD RULER 7/2\n3 RACE\n6 O'BRIEN (T. Kay)"

\* A card that holds the header of race 1 twice, with an entry after each.
RepeatedRaceText ==
    "RACE 1\n1. MIDNIGHT RUN (J. Smith) 5-1\nRACE 1\n2. SOLAR FLARE (A. Lee) 3-1"

\* Entries of each shape: with neither jockey nor odds, with both and blanks
\* around the jockey, and with the numbers 25 and 0.
EntryShapesText ==
    "RACE 4\n4 LUCKY STAR\n7 SEA BREEZE ( R. Cole ) 9/2\n25. FAR FIELD\n0 NIL"

\* Purses of 1000 and of 999, each alone on a line.
ThousandPurseText ==
    "RACE 1\nPurse $1,000\n1. MIDNIGHT RUN (J. Smith) 5-1\n"
    \o "RACE 2\nPurse $999\n2. SOLAR FLARE (A. Lee) 3-1"

\* Conditions on more than one line after the header, and conditions on the
\* fifth line after it.
WindowText ==
    "RACE 1\n6 Furlongs Dirt\n1 Mile Turf\n$5,000\n2. NIGHT OWL\n$9,000 7f synthetic"

\* Two entries of the number 1 in one race, after a condition line of the
\* shape of an entry; all three lie in the four lines after the header.
SameNumberText ==
    "RACE 1\n7 Furlongs Turf\n1. MIDNIGHT RUN (J. Smith) 5-1\n1. SOLAR FLARE"

\* A header of the shape of an entry while a race is open, an entry, a header
\* in the middle of a line and a line that is neither.
CascadeText ==
    "RACE 1\n3 RACE\n1. MIDNIGHT RUN (J. Smith) 5-1\nthe 2nd race of the day\nscratched"

\* Three races whose headers are more than four lines apart: one with a
\* line of keywords of dirt and of turf, one with a line of keywords of dirt
\* and of synthetic, and one with no keyword.
SurfaceText ==
    "RACE 1\nDirt course, Turf rail\n1. SUN KING\n2. SOLAR FLARE\n3. NIGHT OWL\n"
    \o "RACE 2\nMain track, Polytrack\n1. SUN KING\n2. SOLAR FLARE\n3. NIGHT OWL\n"
    \o "RACE 3\n3. NIGHT OWL"

\* A race of one entry and no conditions, followed at once by a race with
\* its conditions.
NextRaceConditionsText ==
    "RACE 1\n1. MIDNIGHT RUN (J. Smith) 5-1\nRACE 2\nPurse $5,000 7 Furlongs Turf\n"
    \o "2. SOLAR FLARE (A. Lee) 3-1"

ParseTexts ==
    TextsOf(LineChoices, MaxLines)
        \cup {ExampleText, ThreeRaceText, RepeatedRaceText, EntryShapesText,
              ThousandPurseText, WindowText, SameNumberText, CascadeText,
              SurfaceText, NextRaceConditionsText}

\* The length above which processPDF takes the text of a document for
\* reliable.
ReliableTextLength == 100

\* str, n times over.
RECURSIVE Repeat(_, _)
Repeat(str, n) ==
    IF n = 0 THEN ""
    ELSE LET half == Repeat(str, n \div 2)
         IN  half \o half \o (IF n % 2 = 1 THEN str ELSE "")

\* A text of the given length that ends with a race of one entry.
EntryText == "RACE 1\n1. MIDNIGHT RUN (J. Smith) 5-1"
PaddedEntryText(length) == Repeat("-", length - Len(EntryText) - 1) \o "\n" \o EntryText

\* The texts the collaborators yield for a document: no text, a short card,
\* the example, and texts of the length ReliableTextLength and of one more,
\* with a race and without.
DocTexts ==
    {"", EntryText, ExampleText,
     Repeat("-", ReliableTextLength), Repeat("-", ReliableTextLength + 1),
     PaddedEntryText(ReliableTextLength), PaddedEntryText(ReliableTextLength + 1)}

----------------------------------------------------------------------------
(* extractRaces and parseRaceData, continued.                              *)

\* currentRace as "Start new race" leaves it.
NewRace(raceNumber, today) ==
    [id       |-> "race-" \o NatStr(raceNumber),
     number   |-> raceNumber,
     track    |-> "Unknown",
     date     |-> today,
     horses   |-> <<>>,
     distance |-> None,
     surface  |-> None,
     purse    |-> None]

\* The number of lines after a race header that are looked at for the race's
\* conditions.
LookaheadLines == 4

\* One round of the loop over the condition lines.
ApplyConditionLine(race, conditionLine) ==
    LET distance == extractDistance(conditionLine)
        surface  == extractSurface(conditionLine)
        purse    == extractPurse(conditionLine)
    IN  [race EXCEPT
            !.distance = IF IsSome(distance) THEN distance ELSE @,
            !.surface  = IF IsSome(surface) THEN surface ELSE @,
            !.purse    = IF IsSome(purse) THEN purse ELSE @]

\* ScanConditions that stops after the first line that gave a condition.
RECURSIVE ScanConditionsStopping(_, _, _, _)
ScanConditionsStopping(race, ls, h, j) ==
    IF j > h + LookaheadLines \/ j > Len(ls) THEN race
    ELSE LET r == ApplyConditionLine(race, ls[j])
         IN  IF r # race THEN r ELSE ScanConditionsStopping(r, ls, h, j + 1)

\* for (j = i + 1; j < Math.min(i + 5, lines.length); j++), with j and the
\* header's index h counted from 1.
RECURSIVE ScanConditions(_, _, _, _)
ScanConditions(race, ls, h, j) ==
    IF j > h + LookaheadLines \/ j > Len(ls) THEN race
    ELSE ScanConditions(ApplyConditionLine(race, ls[j]), ls, h, j + 1)

\* PushRace without the test of currentHorses.length.
PushRaceWithoutHorses(rs, race, horses) ==
    IF IsSome(race) THEN Append(rs, [Val(race) EXCEPT !.horses = horses]) ELSE rs

\* PushRace with unshift in the place of push.
PushRaceInFront(rs, race, horses) ==
    IF IsSome(race) /\ Len(horses) > 0
    THEN <<[Val(race) EXCEPT !.horses = horses]>> \o rs
    ELSE rs

\* PushRace that writes the race over the last race of races.
PushRaceOverLast(rs, race, horses) ==
    IF IsSome(race) /\ Len(horses) > 0
    THEN Append(SubSeq(rs, 1, Len(rs) - 1), [Val(race) EXCEPT !.horses = horses])
    ELSE rs

\* if (currentRace && currentHorses.length > 0) races.push({...currentRace,
\* horses: currentHorses})
PushRace(rs, race, horses) ==
    IF IsSome(race) /\ Len(horses) > 0
    THEN Append(rs, [Val(race) EXCEPT !.horses = horses])
    ELSE rs

\* const races = []; const lines = ...; let currentRace = null; ...
EnterExtractRaces ==
    /\ pc = "extractRaces"
    /\ lines' = SplitLines(rawText)
    /\ i' = 1
    /\ races' = <<>>
    /\ currentRace' = None
    /\ currentHorses' = <<>>
    /\ pc' = "loop"
    /\ UNCHANGED <<elsewhere, fileVars, rawText, clock, path, card>>

\* The loop body for a line that matches raceHeaderRegex.
HeaderLine ==
    /\ pc = "loop"
    /\ i <= Len(lines)
    /\ IsSome(raceHeaderMatch(lines[i]))
    /\ \E c \in clock..LastDay :
        /\ clock' = c
        /\ currentRace' =
              Some(ScanConditions(
                  NewRace(parseInt(Val(raceHeaderMatch(lines[i]))), ClockDay(c)),
                  lines, i, i + 1))
    /\ races' = PushRace(races, currentRace, currentHorses)
    /\ currentHorses' = <<>>
    /\ i' = i + 1
    /\ UNCHANGED <<elsewhere, fileVars, rawText, pc, path, lines, card>>

\* HorseLine without the test of currentRace.
HorseLineWithoutRace ==
    /\ pc = "loop"
    /\ i <= Len(lines)
    /\ ~IsSome(raceHeaderMatch(lines[i]))
    /\ IsSome(extractHorseFromLine(lines[i]))
    /\ currentHorses' = Append(currentHorses, Val(extractHorseFromLine(lines[i])))
    /\ i' = i + 1
    /\ UNCHANGED <<elsewhere, fileVars, rawText, clock, pc, path, lines, races, currentRace, card>>

\* HorseLine that tries a line as an entry whether it is a header or not.
HorseLineOnHeader ==
    /\ pc = "loop"
    /\ i <= Len(lines)
    /\ IsSome(currentRace)
    /\ IsSome(extractHorseFromLine(lines[i]))
    /\ currentHorses' = Append(currentHorses, Val(extractHorseFromLine(lines[i])))
    /\ i' = i + 1
    /\ UNCHANGED <<elsewhere, fileVars, rawText, clock, pc, path, lines, races, currentRace, card>>

\* HorseLine that keeps one horse of each number.
HorseLineUniqueNumbers ==
    /\ pc = "loop"
    /\ i <= Len(lines)
    /\ ~IsSome(raceHeaderMatch(lines[i]))
    /\ IsSome(currentRace)
    /\ IsSome(extractHorseFromLine(lines[i]))
    /\ LET horse == Val(extractHorseFromLine(lines[i]))
       IN  currentHorses' =
              IF \E k \in 1..Len(currentHorses) : currentHorses[k].number = horse.number
              THEN currentHorses
              ELSE Append(currentHorses, horse)
    /\ i' = i + 1
    /\ UNCHANGED <<elsewhere, fileVars, rawText, clock, pc, path, lines, races, currentRace, card>>

\* The loop body for a line that is no header, while a race is open and the
\* line is a horse entry.
HorseLine ==
    /\ pc = "loop"
    /\ i <= Len(lines)
    /\ ~IsSome(raceHeaderMatch(lines[i]))
    /\ IsSome(currentRace)
    /\ IsSome(extractHorseFromLine(lines[i]))
    /\ currentHorses' = Append(currentHorses, Val(extractHorseFromLine(lines[i])))
    /\ i' = i + 1
    /\ UNCHANGED <<elsewhere, fileVars, rawText, clock, pc, path, lines, races, currentRace, card>>

\* The loop body for any other line: nothing but the loop's own i++.
OtherLine ==
    /\ pc = "loop"
    /\ i <= Len(lines)
    /\ ~IsSome(raceHeaderMatch(lines[i]))
    /\ ~(IsSome(currentRace) /\ IsSome(extractHorseFromLine(lines[i])))
    /\ i' = i + 1
    /\ UNCHANGED <<elsewhere, fileVars, rawText, clock, pc, path, lines, races, currentRace,
                   currentHorses, card>>

\* ReturnRaces with the last race added whether it has horses or not.
ReturnRacesWithLast ==
    /\ pc = "loop"
    /\ i > Len(lines)
    /\ races' = IF IsSome(currentRace)
                THEN Append(races, [Val(currentRace) EXCEPT !.horses = currentHorses])
                ELSE races
    /\ pc' = "assembled"
    /\ UNCHANGED <<elsewhere, fileVars, rawText, clock, path, lines, i, currentRace,
                   currentHorses, card>>

\* After the loop: "Add the last race" and return races.
ReturnRaces ==
    /\ pc = "loop"
    /\ i > Len(lines)
    /\ races' = PushRace(races, currentRace, currentHorses)
    /\ pc' = "assembled"
    /\ UNCHANGED <<elsewhere, fileVars, rawText, clock, path, lines, i, currentRace,
                   currentHorses, card>>

\* parseRaceData after extractRaces has returned: the track, the date and the
\* card. The clock is read only when the text holds no date; zoneAhead tells
\* whether the process runs in a time zone ahead of UTC.
ReturnCard ==
    /\ pc = "assembled"
    /\ \E zoneAhead \in BOOLEAN :
       LET track == extractTrack(rawText)
           date  == extractDate(rawText, zoneAhead)
       IN  \E c \in clock..LastDay :
             /\ clock' = IF IsSome(date) THEN clock ELSE c
             /\ card' = Some([track |-> IF IsSome(track) THEN Val(track)
                                        ELSE "Unknown Track",
                              date  |-> IF IsSome(date) THEN Val(date)
                                        ELSE ClockDay(c),
                              races |-> races])
    /\ pc' = "parsed"
    /\ UNCHANGED <<elsewhere, fileVars, rawText, path, lines, i, races, currentRace, currentHorses>>

ParseNext ==
    \/ EnterExtractRaces
    \/ HeaderLine
    \/ HorseLine
    \/ OtherLine
    \/ ReturnRaces
    \/ ReturnCard

----------------------------------------------------------------------------
(* processFile, processPDF, processImage, processWithGoogleVision and      *)
(* processWithTesseract. Every await is a step; a collaborator may fulfil  *)
(* or reject it.                                                           *)

\* What a collaborator may reject with: an Error, or a value that is none.
Rejections ==
    {[isError |-> TRUE, message |-> "collaborator failed"],
     [isError |-> FALSE, message |-> "rejected"]}

Thrown(e) == Some([throw |-> TRUE, value |-> e])
Returned(r) == Some([throw |-> FALSE, value |-> r])

\* String.prototype.toLowerCase, on a character
ToLowerCh(c) ==
    IF c \in UpperChars THEN CHOOSE l \in LowerChars : UpperOf[l] = c ELSE c

RECURSIVE LowerFrom(_, _)
LowerFrom(s, p) == IF p > Len(s) THEN "" ELSE ToLowerCh(s[p]) \o LowerFrom(s, p + 1)

\* fileName.toLowerCase().split('.').pop(): what follows the last dot, the
\* whole name when it has no dot.
FileExtension(name) ==
    LET s == Chars(name)
        dots == {p \in 1..Len(s) : s[p] = "."}
        from == IF dots = {} THEN 1 ELSE (CHOOSE p \in dots : \A q \in dots : q <= p) + 1
    IN  LowerFrom(s, from)

FileNames ==
    {"card.pdf", "CARD.PDF", "scan.jpg", "scan.jpeg", "scan.png",
     "card.pdf.txt", "pdf", "scan."}

\* The OCRResult of a fulfilled path; confidence in hundredths.
SuccessResult(text, confidence, extractedData) ==
    [success       |-> TRUE,
     text          |-> text,
     confidence    |-> confidence,
     extractedData |-> extractedData,
     errors        |-> None]

\* The OCRResult processFile's catch builds.
FailureResult(error) ==
    [success       |-> FALSE,
     text          |-> "",
     confidence    |-> 0,
     extractedData |-> None,
     errors        |-> Some(<<IF error.isError THEN error.message
                                ELSE "Unknown error">>)]

parseState == <<rawText, clock, path, lines, i, races, currentRace,
                currentHorses, card>>

\* ProcessFile with the default of the switch falling through to the pdf case.
ProcessFileDefaultPdf ==
    /\ pc = "processFile"
    /\ LET fileExtension == FileExtension(fileName)
       IN  IF fileExtension \in {"jpg", "jpeg", "png"}
           THEN pc' = IF visionClient THEN "textDetection" ELSE "createWorker"
           ELSE pc' = "readFile"
    /\ UNCHANGED <<elsewhere, parseState, fileName, visionClient, calls, workers,
                   terminations, detections, engineConfidence, completion, result>>

\* processFile up to the call the switch makes.
ProcessFile ==
    /\ pc = "processFile"
    /\ LET fileExtension == FileExtension(fileName)
       IN  IF fileExtension = "pdf"
           THEN pc' = "readFile" /\ UNCHANGED completion
           ELSE IF fileExtension \in {"jpg", "jpeg", "png"}
           THEN /\ pc' = IF visionClient THEN "textDetection" ELSE "createWorker"
                /\ UNCHANGED completion
           ELSE /\ pc' = "catch"
                /\ completion' =
                      Thrown([isError |-> TRUE,
                              message |-> "Unsupported file type: " \o fileExtension])
    /\ UNCHANGED <<elsewhere, parseState, fileName, visionClient, calls, workers,
                   terminations, detections, engineConfidence, result>>

\* A step that awaits a collaborator and hands nothing on but the control:
\* on fulfilment the call goes on at next, on rejection at onThrow.
Await(at, collaborator, next, onThrow) ==
    /\ pc = at
    /\ calls' = calls \cup {collaborator}
    /\ \/ pc' = next /\ UNCHANGED completion
       \/ \E e \in Rejections : pc' = onThrow /\ completion' = Thrown(e)

\* processPDF: await fs.readFile(filePath)
ReadFile ==
    /\ Await("readFile", "readFile", "pdfParse", "catch")
    /\ UNCHANGED <<elsewhere, parseState, fileName, visionClient, workers, terminations,
                   detections, engineConfidence, result>>

\* PdfParse that hands a document with little text to the local engine.
PdfParseSparseToEngine ==
    /\ pc = "pdfParse"
    /\ calls' = calls \cup {"pdfParse"}
    /\ \/ \E text \in DocTexts :
            /\ rawText' = text
            /\ path' = "pdf"
            /\ pc' = IF Len(text) > ReliableTextLength THEN "extractRaces"
                     ELSE "createWorker"
            /\ UNCHANGED completion
       \/ \E e \in Rejections :
            /\ pc' = "catch"
            /\ completion' = Thrown(e)
            /\ UNCHANGED <<rawText, path>>
    /\ UNCHANGED <<elsewhere, parseVars, clock, fileName, visionClient, workers,
                   terminations, detections, engineConfidence, result>>

\* processPDF: await pdfParse(dataBuffer); the text it yields is handed to
\* parseRaceData in either branch.
PdfParse ==
    /\ pc = "pdfParse"
    /\ calls' = calls \cup {"pdfParse"}
    /\ \/ \E text \in DocTexts :
            /\ rawText' = text
            /\ path' = "pdf"
            /\ pc' = "extractRaces"
            /\ UNCHANGED completion
       \/ \E e \in Rejections :
            /\ pc' = "catch"
            /\ completion' = Thrown(e)
            /\ UNCHANGED <<rawText, path>>
    /\ UNCHANGED <<elsewhere, parseVars, clock, fileName, visionClient, workers,
                   terminations, detections, engineConfidence, result>>

\* PdfReturn with >= in the place of > in the test of the length.
PdfReturnFromLength ==
    /\ pc = "parsed"
    /\ path = "pdf"
    /\ result' = Some(SuccessResult(
                     rawText,
                     IF rawText # "" /\ Len(rawText) >= ReliableTextLength
                     THEN 90 ELSE 50,
                     card))
    /\ pc' = "done"
    /\ UNCHANGED <<elsewhere, parseState, fileName, visionClient, calls, workers,
                   terminations, detections, engineConfidence, completion>>

\* processPDF: the result of either branch, which processFile resolves to.
\* Confidence in hundredths.
PdfReturn ==
    /\ pc = "parsed"
    /\ path = "pdf"
    /\ result' = Some(SuccessResult(
                     rawText,
                     IF rawText # "" /\ Len(rawText) > ReliableTextLength
                     THEN 90 ELSE 50,
                     card))
    /\ pc' = "done"
    /\ UNCHANGED <<elsewhere, parseState, fileName, visionClient, calls, workers,
                   terminations, detections, engineConfidence, completion>>

\* The most text annotations a detection yields.
MaxDetections == 2

\* data.confidence as the engine reports it.
EngineConfidences == {0, 87, 100}

\* processWithGoogleVision: await this.visionClient.textDetection(filePath),
\* the check of the detections and detections[0].description || ''.
TextDetection ==
    /\ pc = "textDetection"
    /\ calls' = calls \cup {"textDetection"}
    /\ \/ \E n \in 1..MaxDetections, text \in DocTexts :
            /\ detections' = n
            /\ rawText' = text
            /\ path' = "vision"
            /\ pc' = "extractRaces"
            /\ UNCHANGED completion
       \/ /\ pc' = "catch"
          /\ completion' = Thrown([isError |-> TRUE,
                                   message |-> "No text detected in image"])
          /\ UNCHANGED <<detections, rawText, path>>
       \/ \E e \in Rejections :
            /\ pc' = "catch"
            /\ completion' = Thrown(e)
            /\ UNCHANGED <<detections, rawText, path>>
    /\ UNCHANGED <<elsewhere, parseVars, clock, fileName, visionClient, workers,
                   terminations, engineConfidence, result>>

\* calculateGoogleVisionConfidence with >= in the place of >.
confidenceFromOneDetection(detectionsLength) ==
    IF detectionsLength >= 1 THEN 85 ELSE 70

\* Confidence in hundredths.
calculateGoogleVisionConfidence(detectionsLength) ==
    IF detectionsLength > 1 THEN 85 ELSE 70

\* processWithGoogleVision: the result, which processFile resolves to.
VisionReturn ==
    /\ pc = "parsed"
    /\ path = "vision"
    /\ result' = Some(SuccessResult(
                     rawText, calculateGoogleVisionConfidence(detections), card))
    /\ pc' = "done"
    /\ UNCHANGED <<elsewhere, parseState, fileName, visionClient, calls, workers,
                   terminations, detections, engineConfidence, completion>>

\* processWithTesseract: await createWorker(), before the try.
CreateWorker ==
    /\ pc = "createWorker"
    /\ calls' = calls \cup {"createWorker"}
    /\ \/ /\ workers' = workers + 1
          /\ pc' = "preprocessImage"
          /\ UNCHANGED completion
       \/ \E e \in Rejections :
            /\ pc' = "catch"
            /\ completion' = Thrown(e)
            /\ UNCHANGED workers
    /\ UNCHANGED <<elsewhere, parseState, fileName, visionClient, terminations,
                   detections, engineConfidence, result>>

\* preprocessImage: await sharp(filePath)...toFile(outputPath)
PreprocessImage ==
    /\ Await("preprocessImage", "sharp", "loadLanguage", "finally")
    /\ UNCHANGED <<elsewhere, parseState, fileName, visionClient, workers, terminations,
                   detections, engineConfidence, result>>

\* await worker.loadLanguage('eng')
LoadLanguage ==
    /\ Await("loadLanguage", "loadLanguage", "initialize", "finally")
    /\ UNCHANGED <<elsewhere, parseState, fileName, visionClient, workers, terminations,
                   detections, engineConfidence, result>>

\* await worker.initialize('eng')
Initialize ==
    /\ Await("initialize", "initialize", "recognize", "finally")
    /\ UNCHANGED <<elsewhere, parseState, fileName, visionClient, workers, terminations,
                   detections, engineConfidence, result>>

\* Recognize with a catch that passes the rejection on in the place of the
\* finally.
RecognizeWithoutFinally ==
    /\ pc = "recognize"
    /\ calls' = calls \cup {"recognize"}
    /\ \/ \E text \in DocTexts, confidence \in EngineConfidences :
            /\ rawText' = text
            /\ engineConfidence' = confidence
            /\ path' = "tesseract"
            /\ pc' = "extractRaces"
            /\ UNCHANGED completion
       \/ \E e \in Rejections :
            /\ pc' = "catch"
            /\ completion' = Thrown(e)
            /\ UNCHANGED <<rawText, engineConfidence, path>>
    /\ UNCHANGED <<elsewhere, parseVars, clock, fileName, visionClient, workers,
                   terminations, detections, result>>

\* await worker.recognize(processedImagePath)
Recognize ==
    /\ pc = "recognize"
    /\ calls' = calls \cup {"recognize"}
    /\ \/ \E text \in DocTexts, confidence \in EngineConfidences :
            /\ rawText' = text
            /\ engineConfidence' = confidence
            /\ path' = "tesseract"
            /\ pc' = "extractRaces"
            /\ UNCHANGED completion
       \/ \E e \in Rejections :
            /\ pc' = "finally"
            /\ completion' = Thrown(e)
            /\ UNCHANGED <<rawText, engineConfidence, path>>
    /\ UNCHANGED <<elsewhere, parseVars, clock, fileName, visionClient, workers,
                   terminations, detections, result>>

\* TesseractReturn with data.confidence handed on as it is, in hundredths.
TesseractReturnUnscaled ==
    /\ pc = "parsed"
    /\ path = "tesseract"
    /\ completion' = Returned(SuccessResult(rawText, engineConfidence * 100, card))
    /\ pc' = "finally"
    /\ UNCHANGED <<elsewhere, parseState, fileName, visionClient, calls, workers,
                   terminations, detections, engineConfidence, result>>

\* processWithTesseract: the return statement of the try block. Confidence
\* in hundredths: data.confidence / 100.
TesseractReturn ==
    /\ pc = "parsed"
    /\ path = "tesseract"
    /\ completion' = Returned(SuccessResult(rawText, engineConfidence, card))
    /\ pc' = "finally"
    /\ UNCHANGED <<elsewhere, parseState, fileName, visionClient, calls, workers,
                   terminations, detections, engineConfidence, result>>

\* finally { await worker.terminate() }: when it is fulfilled the pending
\* return or throw of the try block goes on, when it rejects its rejection
\* takes the place of either.
Terminate ==
    /\ pc = "finally"
    /\ calls' = calls \cup {"terminate"}
    /\ terminations' = terminations + 1
    /\ \/ /\ Val(completion).throw
          /\ pc' = "catch"
          /\ UNCHANGED <<completion, result>>
       \/ /\ ~Val(completion).throw
          /\ result' = Some(Val(completion).value)
          /\ pc' = "done"
          /\ UNCHANGED completion
       \/ \E e \in Rejections :
            /\ pc' = "catch"
            /\ completion' = Thrown(e)
            /\ UNCHANGED result
    /\ UNCHANGED <<elsewhere, parseState, fileName, visionClient, workers, detections,
                   engineConfidence>>

\* Catch with the error thrown on to the caller.
CatchAndRethrow ==
    /\ pc = "catch"
    /\ pc' = "rejected"
    /\ UNCHANGED <<elsewhere, parseState, fileVars>>

\* processFile: the catch block.
Catch ==
    /\ pc = "catch"
    /\ result' = Some(FailureResult(Val(completion).value))
    /\ pc' = "done"
    /\ UNCHANGED <<elsewhere, parseState, fileName, visionClient, calls, workers,
                   terminations, detections, engineConfidence, completion>>

Next ==
    \/ ProcessFile
    \/ ReadFile
    \/ PdfParse
    \/ PdfReturn
    \/ TextDetection
    \/ VisionReturn
    \/ CreateWorker
    \/ PreprocessImage
    \/ LoadLanguage
    \/ Initialize
    \/ Recognize
    \/ TesseractReturn
    \/ Terminate
    \/ Catch
    \/ ParseNext

IdleParse ==
    /\ lines = <<>>
    /\ i = 1
    /\ races = <<>>
    /\ currentRace = None
    /\ currentHorses = <<>>
    /\ card = None

IdleFile ==
    /\ calls = {}
    /\ workers = 0
    /\ terminations = 0
    /\ detections = 0
    /\ engineConfidence = 0
    /\ completion = None
    /\ result = None
    /\ previous = None
    /\ jobs = <<>>
    /\ disk = <<>>
    /\ uploads = <<>>
    /\ emitted = <<>>
    /\ listeners = <<>>
    /\ dispatch = None

\* A call of processFile on a service as the constructor leaves it.
Init ==
    /\ fileName \in FileNames
    /\ visionClient \in BOOLEAN
    /\ rawText = ""
    /\ clock = 1
    /\ pc = "processFile"
    /\ path = "file"
    /\ IdleParse
    /\ IdleFile

Spec == Init /\ [][Next]_vars

\* A call of parseRaceData on a text.
ParseInit ==
    /\ fileName = ""
    /\ visionClient = FALSE
    /\ rawText \in ParseTexts
    /\ clock = 1
    /\ pc = "extractRaces"
    /\ path = "parse"
    /\ IdleParse
    /\ IdleFile

ParseSpec == ParseInit /\ [][ParseNext]_vars

\* A second call of parseRaceData on the text of the first, after the first
\* has returned; the clock is not set back.
Reparse ==
    /\ pc = "parsed"
    /\ previous = None
    /\ previous' = card
    /\ card' = None
    /\ pc' = "extractRaces"
    /\ UNCHANGED <<outside, jobs, disk, fileVars, rawText, clock, path, lines, i,
                   races, currentRace, currentHorses>>

ReparseNext ==
    \/ ParseNext
    \/ Reparse

ReparseSpec == ParseInit /\ [][ReparseNext]_vars

----------------------------------------------------------------------------
(* Calls of processFile side by side, one for each upload. Between two     *)
(* awaits a call runs alone: job steps are taken while no call is inside   *)
(* parseRaceData, which has no await. A file is held as the text it shows. *)

\* The documents uploaded, one for each call.
Documents ==
    <<"SANTA ANITA\nRACE 1\n1. MIDNIGHT RUN (J. Smith) 5-1",
      "RACE 2\n2. SOLAR FLARE (A. Lee) 3-1">>

\* The path multer's storage gives the k-th upload: the upload directory,
\* the field name, a suffix no other upload has (Date.now() and a uuid, for
\* which k stands) and the extension of the original name.
UploadPath(k, originalname) ==
    "uploads/file-" \o NatStr(k) \o "." \o FileExtension(originalname)

\* A path for the preprocessed image that is the same for every call.
SharedProcessedPath(filePath) == "uploads/processed.png"

\* preprocessImage: filePath.replace(/\.[^/.]+$/, '_processed.png')
ProcessedPath(filePath) ==
    LET s == Chars(filePath)
        dots == {p \in 1..(Len(s) - 1) :
                    s[p] = "." /\ \A q \in (p + 1)..Len(s) : s[q] \notin {"/", "."}}
    IN  IF dots = {} THEN filePath
        ELSE SubSeq(filePath, 1, (CHOOSE p \in dots : TRUE) - 1) \o "_processed.png"

\* processFile and processImage of the call c: the switch on the kind.
JobStart(c) ==
    /\ pc = "idle"
    /\ jobs[c].at = "processFile"
    /\ jobs' = [jobs EXCEPT ![c].at =
                   IF FileExtension(jobs[c].fileName) = "pdf" THEN "readFile"
                   ELSE IF visionClient THEN "textDetection"
                   ELSE "createWorker"]
    /\ UNCHANGED <<outside, previous, disk, fileVars, parseState, pc>>

\* An await of the call c that is fulfilled and hands on no text:
\* fs.readFile, which reads the file, createWorker, loadLanguage, initialize
\* and terminate, after which the pending result is the call's result.
JobAwait(c) ==
    /\ pc = "idle"
    /\ jobs[c].at \in {"readFile", "createWorker", "loadLanguage", "initialize",
                       "terminate"}
    /\ jobs' = [jobs EXCEPT
                   ![c].at = CASE @ = "readFile" -> "pdfParse"
                               [] @ = "createWorker" -> "sharp"
                               [] @ = "loadLanguage" -> "initialize"
                               [] @ = "initialize" -> "recognize"
                               [] @ = "terminate" -> "done",
                   ![c].buffer = IF jobs[c].at = "readFile"
                                 THEN disk[jobs[c].filePath] ELSE @]
    /\ UNCHANGED <<outside, previous, disk, fileVars, parseState, pc>>

\* preprocessImage of the call c: sharp reads the file and writes the
\* preprocessed image, which shows the same text, to outputPath.
JobSharp(c) ==
    /\ pc = "idle"
    /\ jobs[c].at = "sharp"
    /\ disk' = (ProcessedPath(jobs[c].filePath) :> disk[jobs[c].filePath]) @@ disk
    /\ jobs' = [jobs EXCEPT ![c].at = "loadLanguage"]
    /\ UNCHANGED <<outside, previous, fileVars, parseState, pc>>

\* The await of the call c that yields the text: pdfParse of the buffer,
\* textDetection of the file, recognize of the preprocessed image. The call
\* goes on into parseRaceData at once.
JobText(c) ==
    /\ pc = "idle"
    /\ jobs[c].at \in {"pdfParse", "textDetection", "recognize"}
    /\ rawText' = CASE jobs[c].at = "pdfParse" -> jobs[c].buffer
                    [] jobs[c].at = "textDetection" -> disk[jobs[c].filePath]
                    [] jobs[c].at = "recognize" ->
                          disk[ProcessedPath(jobs[c].filePath)]
    /\ path' = CASE jobs[c].at = "pdfParse" -> "pdf"
                 [] jobs[c].at = "textDetection" -> "vision"
                 [] jobs[c].at = "recognize" -> "tesseract"
    /\ pc' = "extractRaces"
    /\ jobs' = [jobs EXCEPT ![c].at = "parseRaceData"]
    /\ UNCHANGED <<outside, previous, disk, fileVars, parseVars, clock>>

\* The return of the call c after parseRaceData: the result of its path,
\* which on the local path waits for the finally block.
JobReturn(c) ==
    /\ pc = "parsed"
    /\ jobs[c].at = "parseRaceData"
    /\ \E n \in 1..MaxDetections, confidence \in EngineConfidences :
          jobs' = [jobs EXCEPT
                      ![c].at = IF path = "tesseract" THEN "terminate" ELSE "done",
                      ![c].result =
                          Some(SuccessResult(
                              rawText,
                              CASE path = "pdf" ->
                                      IF rawText # "" /\ Len(rawText) > ReliableTextLength
                                      THEN 90 ELSE 50
                                [] path = "vision" -> calculateGoogleVisionConfidence(n)
                                [] path = "tesseract" -> confidence,
                              card))]
    /\ pc' = "idle"
    /\ card' = None
    /\ UNCHANGED <<outside, previous, disk, fileVars, rawText, clock, path, lines, i, races,
                   currentRace, currentHorses>>

\* An await of the call c that rejects: the catch of processFile makes the
\* failure result, after the finally block when the call holds a worker.
JobFail(c) ==
    /\ pc = "idle"
    /\ jobs[c].at \in {"readFile", "pdfParse", "textDetection", "createWorker",
                       "sharp", "loadLanguage", "initialize", "recognize",
                       "terminate"}
    /\ \E e \in Rejections :
          jobs' = [jobs EXCEPT
                      ![c].at = IF @ \in {"sharp", "loadLanguage", "initialize",
                                          "recognize"}
                                THEN "terminate" ELSE "done",
                      ![c].result = Some(FailureResult(e))]
    /\ UNCHANGED <<outside, previous, disk, fileVars, parseState, pc>>

ConcurrentNext ==
    \/ \E c \in DOMAIN jobs : JobStart(c)
    \/ \E c \in DOMAIN jobs : JobAwait(c)
    \/ \E c \in DOMAIN jobs : JobSharp(c)
    \/ \E c \in DOMAIN jobs : JobText(c)
    \/ \E c \in DOMAIN jobs : JobReturn(c)
    \/ \E c \in DOMAIN jobs : JobFail(c)
    \/ ParseNext

\* One call for each document, none begun, on a service with or without a
\* cloud client; each file under the path its upload was given.
ConcurrentInit ==
    /\ fileName = ""
    /\ visionClient \in BOOLEAN
    /\ rawText = ""
    /\ clock = 1
    /\ pc = "idle"
    /\ path = "jobs"
    /\ IdleParse
    /\ calls = {}
    /\ workers = 0
    /\ terminations = 0
    /\ detections = 0
    /\ engineConfidence = 0
    /\ completion = None
    /\ result = None
    /\ previous = None
    /\ uploads = <<>>
    /\ emitted = <<>>
    /\ listeners = <<>>
    /\ dispatch = None
    /\ \E names \in [DOMAIN Documents -> {"card.pdf", "scan.jpg", "scan.png"}] :
          /\ jobs = [c \in DOMAIN Documents |->
                        [at       |-> "processFile",
                         fileName |-> names[c],
                         filePath |-> UploadPath(c, names[c]),
                         buffer   |-> None,
                         result   |-> None]]
          /\ disk = [p \in {UploadPath(c, names[c]) : c \in DOMAIN Documents} |->
                        Documents[CHOOSE c \in DOMAIN Documents :
                                      UploadPath(c, names[c]) = p]]

ConcurrentSpec == ConcurrentInit /\ [][ConcurrentNext]_vars

----------------------------------------------------------------------------
(* UploadController: uploadFile, processFileAsync and cleanupFile. Each    *)
(* request runs from one await to the next without a break; the requests   *)
(* take turns at the awaits. The calls that are not awaited (res.json,     *)
(* io.emit, logger, uuidv4) return, so the catch of uploadFile is not      *)
(* entered.                                                                *)

\* config.upload.allowedTypes and config.upload.maxFileSize. The size is
\* counted in units of the limit's half.
AllowedTypes == {".pdf", ".jpg", ".jpeg", ".png"}
MaxFileSize == 2

\* path.extname(originalname).toLowerCase(): from the last dot on, "" when
\* the name has no dot after its first character.
extname(originalname) ==
    LET s == Chars(originalname)
        dots == {p \in 2..Len(s) : s[p] = "."}
    IN  IF dots = {} THEN ""
        ELSE LowerFrom(s, CHOOSE p \in dots : \A q \in dots : q <= p)

\* The requests that are handled side by side.
RequestIds == {1, 2}

\* req.file of a request: none, or a file of a name and a size.
RequestFiles ==
    {None} \cup {Some([originalname |-> n, size |-> z]) :
                    n \in {"card.pdf", "SCAN.JPG", "notes.txt"},
                    z \in {MaxFileSize, MaxFileSize + 1}}

\* What the promise of ocrService.processFile is fulfilled with: a success
\* with a card of no race, a success with a card of one race, a failure.
OcrResults ==
    {SuccessResult("", 50, Some([track |-> "Unknown Track", date |-> ClockDay(1),
                                 races |-> <<>>])),
     SuccessResult(EntryText, 50,
                   Some([track |-> "Unknown Track", date |-> ClockDay(1),
                         races |-> <<[NewRace(1, ClockDay(1)) EXCEPT !.horses =
                                        <<Val(extractHorseFromLine(
                                            "1. MIDNIGHT RUN (J. Smith) 5-1"))>>]>>]))}
        \cup {FailureResult(e) : e \in Rejections}

\* uploadFile up to its first await or to the call of processFileAsync.
UploadFile(r) ==
    /\ uploads[r].at = "uploadFile"
    /\ LET file == uploads[r].file
       IN  IF ~IsSome(file)
           THEN uploads' = [uploads EXCEPT
                               ![r].at = "done",
                               ![r].response =
                                   Some([status |-> 400, success |-> FALSE,
                                         error |-> "No file uploaded"])]
           ELSE IF extname(Val(file).originalname) \notin AllowedTypes
           THEN uploads' = [uploads EXCEPT
                               ![r].at = "cleanupFile",
                               ![r].rejection =
                                   Some("File type " \o extname(Val(file).originalname)
                                            \o " not supported")]
           ELSE IF Val(file).size > MaxFileSize
           THEN uploads' = [uploads EXCEPT
                               ![r].at = "cleanupFile",
                               ![r].rejection = Some("File size too large")]
           ELSE uploads' = [uploads EXCEPT
                               ![r].at = "processFileAsync",
                               ![r].fileUpload =
                                   Some([id           |-> r,
                                         originalName |-> Val(file).originalname,
                                         fileSize     |-> Val(file).size,
                                         status       |-> "uploaded",
                                         ocrResult    |-> None,
                                         raceCardId   |-> None])]
    /\ UNCHANGED <<emitted, disk, previous, jobs, listeners, dispatch, fileVars,
                   parseState, pc>>

\* processFileAsync up to its await of ocrService.processFile, and the
\* res.json of uploadFile that follows the call.
ProcessFileAsync(r) ==
    /\ uploads[r].at = "processFileAsync"
    /\ uploads' = [uploads EXCEPT
                      ![r].at = "processFile",
                      ![r].fileUpload[1].status = "processing",
                      ![r].response = Some([status |-> 200, success |-> TRUE,
                                            error |-> ""])]
    /\ emitted' = Append(emitted, [fileId     |-> r,
                                   status     |-> "processing",
                                   message    |-> "Starting OCR processing...",
                                   raceCardId |-> None])
    /\ UNCHANGED <<disk, previous, jobs, listeners, dispatch, fileVars, parseState, pc>>

\* ProcessingFulfilled that takes every result for a success.
ProcessingFulfilledAsCompleted(r) ==
    /\ uploads[r].at = "processFile"
    /\ \E ocrResult \in OcrResults :
          /\ uploads' = [uploads EXCEPT
                            ![r].at = "cleanupFile",
                            ![r].fileUpload[1].ocrResult = Some(ocrResult),
                            ![r].fileUpload[1].status = "completed"]
          /\ emitted' = Append(emitted, [fileId     |-> r,
                                         status     |-> "completed",
                                         message    |-> "File processed successfully",
                                         raceCardId |-> None])
    /\ UNCHANGED <<disk, previous, jobs, listeners, dispatch, fileVars, parseState, pc>>

\* processFileAsync after ocrService.processFile was fulfilled: the rest of
\* the try block. The service reads the file at filePath; without the file
\* it has a failure only.
ProcessingFulfilled(r) ==
    /\ uploads[r].at = "processFile"
    /\ \E ocrResult \in OcrResults :
          LET data == ocrResult.extractedData
              completed == ocrResult.success /\ IsSome(data)
              raceCardId == IF completed /\ Len(Val(data).races) > 0
                            THEN Some(r) ELSE None
          IN  /\ ocrResult.success =>
                    UploadPath(r, Val(uploads[r].file).originalname) \in DOMAIN disk
              /\ uploads' = [uploads EXCEPT
                                ![r].at = "cleanupFile",
                                ![r].fileUpload[1].ocrResult = Some(ocrResult),
                                ![r].fileUpload[1].status =
                                    IF completed THEN "completed" ELSE "failed",
                                ![r].fileUpload[1].raceCardId = raceCardId]
              /\ emitted' =
                    Append(emitted,
                           [fileId     |-> r,
                            status     |-> IF completed THEN "completed" ELSE "failed",
                            message    |-> IF completed THEN "File processed successfully"
                                           ELSE "Failed to extract race data from file",
                            raceCardId |-> raceCardId])
    /\ UNCHANGED <<disk, previous, jobs, listeners, dispatch, fileVars, parseState, pc>>

\* ProcessingRejected that returns from the catch block, with no finally.
ProcessingRejectedWithoutFinally(r) ==
    /\ uploads[r].at = "processFile"
    /\ \E e \in Rejections :
          uploads' = [uploads EXCEPT
                         ![r].at = "done",
                         ![r].fileUpload[1].status = "failed",
                         ![r].fileUpload[1].ocrResult = Some(FailureResult(e))]
    /\ emitted' = Append(emitted, [fileId     |-> r,
                                   status     |-> "failed",
                                   message    |-> "Processing failed due to an error",
                                   raceCardId |-> None])
    /\ UNCHANGED <<disk, previous, jobs, listeners, dispatch, fileVars, parseState, pc>>

\* processFileAsync after the promise of ocrService.processFile rejected:
\* the catch block.
ProcessingRejected(r) ==
    /\ uploads[r].at = "processFile"
    /\ \E e \in Rejections :
          uploads' = [uploads EXCEPT
                         ![r].at = "cleanupFile",
                         ![r].fileUpload[1].status = "failed",
                         ![r].fileUpload[1].ocrResult =
                             Some([FailureResult(e) EXCEPT !.errors =
                                      Some(<<IF e.isError THEN e.message
                                             ELSE "Unknown processing error">>)])]
    /\ emitted' = Append(emitted, [fileId     |-> r,
                                   status     |-> "failed",
                                   message    |-> "Processing failed due to an error",
                                   raceCardId |-> None])
    /\ UNCHANGED <<disk, previous, jobs, listeners, dispatch, fileVars, parseState, pc>>

\* cleanupFile, awaited by uploadFile before it refuses a file and by the
\* finally block of processFileAsync: fs.unlink takes the file away, or it
\* rejects, which is logged, and the file stays. uploadFile then sends its
\* refusal.
CleanupFile(r) ==
    /\ uploads[r].at = "cleanupFile"
    /\ LET filePath == UploadPath(r, Val(uploads[r].file).originalname)
           response == IF IsSome(uploads[r].rejection)
                       THEN Some([status |-> 400, success |-> FALSE,
                                  error |-> Val(uploads[r].rejection)])
                       ELSE uploads[r].response
       IN  \/ /\ disk' = [p \in DOMAIN disk \ {filePath} |-> disk[p]]
              /\ uploads' = [uploads EXCEPT
                                ![r].at = "done",
                                ![r].unlinks = @ + 1,
                                ![r].response = response]
           \/ \E e \in Rejections :
                 /\ UNCHANGED disk
                 /\ uploads' = [uploads EXCEPT
                                   ![r].at = "done",
                                   ![r].unlinks = @ + 1,
                                   ![r].unlinkError = Some(e),
                                   ![r].response = response]
    /\ UNCHANGED <<emitted, previous, jobs, listeners, dispatch, fileVars, parseState, pc>>

UploadNext ==
    \/ \E r \in RequestIds : UploadFile(r)
    \/ \E r \in RequestIds : ProcessFileAsync(r)
    \/ \E r \in RequestIds : ProcessingFulfilled(r)
    \/ \E r \in RequestIds : ProcessingRejected(r)
    \/ \E r \in RequestIds : CleanupFile(r)

\* The requests as multer hands them to uploadFile: the file of each, if it
\* has one, is in the upload directory.
UploadInit ==
    /\ fileName = ""
    /\ visionClient = FALSE
    /\ rawText = ""
    /\ clock = 1
    /\ pc = "idle"
    /\ path = "uploads"
    /\ IdleParse
    /\ calls = {}
    /\ workers = 0
    /\ terminations = 0
    /\ detections = 0
    /\ engineConfidence = 0
    /\ completion = None
    /\ result = None
    /\ previous = None
    /\ jobs = <<>>
    /\ emitted = <<>>
    /\ listeners = <<>>
    /\ dispatch = None
    /\ \E files \in [RequestIds -> RequestFiles] :
          /\ uploads = [r \in RequestIds |->
                           [at         |-> "uploadFile",
                            file       |-> files[r],
                            fileUpload |-> None,
                            rejection  |-> None,
                            unlinks    |-> 0,
                            unlinkError |-> None,
                            response   |-> None]]
          /\ disk = [p \in {UploadPath(r, Val(files[r]).originalname) :
                               r \in {q \in RequestIds : IsSome(files[q])}} |->
                        "document"]

UploadSpec == UploadInit /\ [][UploadNext]_vars

----------------------------------------------------------------------------
(* The client's WebSocketService: on, off, emit and subscribeTo*. A        *)
(* dispatch is the forEach of emit; it runs without a break, so while it   *)
(* is under way only the callback it has called acts.                      *)

\* The events callbacks are subscribed to, and the callbacks.
Events == {"file_processing", "error"}
Callbacks == {"a", "b"}

\* The most callbacks the list of an event holds.
MaxListeners == 3

\* off(event, callback) on the list of the event: indexOf and splice take
\* the first occurrence of the callback out.
off(eventListeners, callback) ==
    LET at == {k \in 1..Len(eventListeners) : eventListeners[k] = callback}
    IN  IF at = {} THEN eventListeners
        ELSE SubSeq(eventListeners, 1, Min(at) - 1)
                 \o SubSeq(eventListeners, Min(at) + 1, Len(eventListeners))

\* No forEach is under way.
Quiet ==
    IF IsSome(dispatch) THEN Val(dispatch).index > Val(dispatch).length ELSE TRUE

\* subscribeTo*(callback): on(event, callback).
SubscribeTo(event, callback) ==
    /\ Quiet
    /\ event \in DOMAIN listeners => Len(listeners[event]) < MaxListeners
    /\ listeners' = IF event \in DOMAIN listeners
                    THEN [listeners EXCEPT ![event] = Append(@, callback)]
                    ELSE (event :> <<callback>>) @@ listeners
    /\ UNCHANGED <<dispatch, uploads, emitted, disk, previous, jobs, fileVars,
                   parseState, pc>>

\* The function subscribeTo* returned, called while no dispatch is under
\* way: off(event, callback).
Unsubscribe(event, callback) ==
    /\ Quiet
    /\ event \in DOMAIN listeners
    /\ \E k \in 1..Len(listeners[event]) : listeners[event][k] = callback
    /\ listeners' = [listeners EXCEPT ![event] = off(@, callback)]
    /\ UNCHANGED <<dispatch, uploads, emitted, disk, previous, jobs, fileVars,
                   parseState, pc>>

\* off(event) with no callback: listeners.delete(event).
OffEvent(event) ==
    /\ Quiet
    /\ event \in DOMAIN listeners
    /\ listeners' = [e \in DOMAIN listeners \ {event} |-> listeners[e]]
    /\ UNCHANGED <<dispatch, uploads, emitted, disk, previous, jobs, fileVars,
                   parseState, pc>>

\* emit(event, data) up to the forEach: the length of the list is read once;
\* registered keeps the list as it is now and invoked the callbacks called.
Emit(event) ==
    /\ Quiet
    /\ dispatch' =
          Some([event      |-> event,
                index      |-> 1,
                length     |-> IF event \in DOMAIN listeners
                               THEN Len(listeners[event]) ELSE 0,
                registered |-> IF event \in DOMAIN listeners
                               THEN listeners[event] ELSE <<>>,
                invoked    |-> <<>>])
    /\ UNCHANGED <<listeners, uploads, emitted, disk, previous, jobs, fileVars,
                   parseState, pc>>

\* One round of the forEach: the element of the list at the index, if the
\* list still has one there, is called inside the try; the callback returns,
\* throws, or calls the unsubscribe function of a callback of the event,
\* its own or another's.
InvokeNext ==
    /\ IsSome(dispatch)
    /\ Val(dispatch).index <= Val(dispatch).length
    /\ LET d == Val(dispatch)
           eventListeners == listeners[d.event]
       IN  IF d.index > Len(eventListeners)
           THEN /\ dispatch' = Some([d EXCEPT !.index = @ + 1])
                /\ UNCHANGED listeners
           ELSE /\ dispatch' = Some([d EXCEPT !.index = @ + 1,
                                              !.invoked = Append(@, eventListeners[d.index])])
                /\ \E does \in {"return", "throw"} \cup Callbacks :
                      listeners' = IF does \in Callbacks
                                   THEN [listeners EXCEPT ![d.event] = off(@, does)]
                                   ELSE listeners
    /\ UNCHANGED <<uploads, emitted, disk, previous, jobs, fileVars, parseState, pc>>

SocketNext ==
    \/ \E event \in Events, callback \in Callbacks : SubscribeTo(event, callback)
    \/ \E event \in Events, callback \in Callbacks : Unsubscribe(event, callback)
    \/ \E event \in Events : OffEvent(event)
    \/ \E event \in Events : Emit(event)
    \/ InvokeNext

\* The service as it is constructed: listeners is an empty Map.
SocketInit ==
    /\ fileName = ""
    /\ visionClient = FALSE
    /\ rawText = ""
    /\ clock = 1
    /\ pc = "idle"
    /\ path = "client"
    /\ IdleParse
    /\ IdleFile

SocketSpec == SocketInit /\ [][SocketNext]_vars

----------------------------------------------------------------------------
(* Properties of extractRaces, stated on the lines it was given.           *)

\* extractRaces has returned.
RacesReturned == pc \in {"assembled", "parsed"}

\* The line at k is a race header; it is a horse entry (no header, and of
\* the shape of an entry).
IsHeaderLine(k) == IsSome(raceHeaderMatch(lines[k]))
IsEntryLine(k) == ~IsHeaderLine(k) /\ IsSome(extractHorseFromLine(lines[k]))

Headers == {k \in 1..Len(lines) : IsHeaderLine(k)}
HeaderNumber(h) == parseInt(Val(raceHeaderMatch(lines[h])))

\* The lines of the race a header opens end before the next header.
SectionEnd(h) == Min({k \in Headers : k > h} \cup {Len(lines) + 1})
SectionEntries(h) == {k \in (h + 1)..(SectionEnd(h) - 1) : IsEntryLine(k)}

\* The headers that are followed by an entry before the next header.
RaceHeaders == {h \in Headers : SectionEntries(h) # {}}

\* The k-th least member of a set of numbers.
Kth(S, k) == CHOOSE x \in S : Cardinality({y \in S : y < x}) = k - 1

RECURSIVE HorseCount(_)
HorseCount(rs) ==
    IF rs = <<>> THEN 0 ELSE Len(Head(rs).horses) + HorseCount(Tail(rs))

\* C1: every race of the races extractRaces returns has at least one horse,
\* and the races returned are as many as the headers followed by an entry
\* before the next header or the end: a header with no entry after it gives
\* no race.
RacesHaveHorses ==
    /\ \A k \in 1..Len(races) : Len(races[k].horses) >= 1
    /\ RacesReturned => Len(races) = Cardinality(RaceHeaders)

\* A text with a header that gives no race and a header that gives one.
ElidedRaceReached ==
    /\ RacesReturned
    /\ Len(races) >= 1
    /\ Headers \ RaceHeaders # {}

IncreasingHeaders ==
    \A a, b \in Headers : a < b => HeaderNumber(a) < HeaderNumber(b)

\* C2: when the numbers of the headers increase in the order of the lines,
\* the races returned are in the order of their headers and each has the
\* number parsed from its own header.
OrderPreserved ==
    (RacesReturned /\ IncreasingHeaders) =>
        /\ Len(races) = Cardinality(RaceHeaders)
        /\ \A k \in 1..Len(races) :
              races[k].number = HeaderNumber(Kth(RaceHeaders, k))

\* Three races returned for headers numbered 1, 2 and 3.
ThreeRacesInOrder ==
    /\ RacesReturned
    /\ IncreasingHeaders
    /\ Len(races) = 3
    /\ <<races[1].number, races[2].number, races[3].number>> = <<1, 2, 3>>

FirstHeader == Min(Headers \cup {Len(lines) + 1})

\* C3: a line of the shape of an entry that stands before the first header
\* is in no race: no horse is kept while no race is open, and the horses of
\* the races returned are as many as the entries after the first header.
OrphansDropped ==
    /\ ~IsSome(currentRace) => (currentHorses = <<>> /\ races = <<>>)
    /\ RacesReturned =>
          HorseCount(races) =
              Cardinality({k \in 1..Len(lines) : k > FirstHeader /\ IsEntryLine(k)})

\* A race returned for a text that begins with an entry.
OrphanBeforeRace ==
    /\ RacesReturned
    /\ Len(races) >= 1
    /\ \E k \in 1..Len(lines) : k < FirstHeader /\ IsEntryLine(k)

\* C4: no two races of the races returned have the same number, also when a
\* number stands in two headers with entries after each.
RaceNumbersUnique ==
    \A a, b \in 1..Len(races) : a # b => races[a].number # races[b].number

\* C7: for the end-to-end example one race is returned, with number 1,
\* distance "6 Furlongs", surface "dirt" and two horses, 1 MIDNIGHT RUN
\* (J. Smith, 5-1) and 2 SOLAR FLARE (A. Lee, 3-1), in this order; no race
\* has the number 2.
ExampleRace ==
    (rawText = ExampleText /\ RacesReturned) =>
        /\ Len(races) = 1
        /\ races[1].number = 1
        /\ races[1].distance = Some("6 Furlongs")
        /\ races[1].surface = Some("dirt")
        /\ Len(races[1].horses) = 2
        /\ races[1].horses[1].number = 1
        /\ races[1].horses[1].name = "MIDNIGHT RUN"
        /\ races[1].horses[1].jockey = "J. Smith"
        /\ races[1].horses[1].odds = Some("5-1")
        /\ races[1].horses[2].number = 2
        /\ races[1].horses[2].name = "SOLAR FLARE"
        /\ races[1].horses[2].jockey = "A. Lee"
        /\ races[1].horses[2].odds = Some("3-1")
        /\ \A k \in 1..Len(races) : races[k].number # 2

\* The example has been parsed.
ExampleParsed == rawText = ExampleText /\ pc = "parsed" /\ Len(races) = 1

\* C8: for the end-to-end example the race returned has the purse 40000 of
\* the condition line after its header.
ExamplePurse ==
    (rawText = ExampleText /\ RacesReturned) =>
        Len(races) = 1 /\ races[1].purse = Some(40000)

HorsesBuilt ==
    {currentHorses[k] : k \in 1..Len(currentHorses)}
        \cup UNION {{races[r].horses[k] : k \in 1..Len(races[r].horses)} :
                       r \in 1..Len(races)}

\* C15: every horse has trainer "Unknown", weight 120, no speed figures and
\* no past performances; a horse of a line with neither jockey nor odds has
\* jockey "Unknown" and no odds, and a horse of a line with a jockey or odds
\* has them as written, trimmed.
HorseDefaults ==
    \A h \in HorsesBuilt :
        /\ h.trainer = "Unknown"
        /\ h.weight = 120
        /\ h.speedFigures = <<>>
        /\ h.pastPerformances = <<>>
        /\ h.name = "LUCKY STAR" => (h.jockey = "Unknown" /\ h.odds = None)
        /\ h.name = "FAR FIELD" => (h.jockey = "Unknown" /\ h.odds = None)
        /\ h.name = "BOLD RULER" => (h.jockey = "Unknown" /\ h.odds = Some("7/2"))
        /\ h.name = "O'BRIEN" => (h.jockey = "T. Kay" /\ h.odds = None)
        /\ h.name = "SEA BREEZE" => (h.jockey = "R. Cole" /\ h.odds = Some("9/2"))
        /\ h.name = "MIDNIGHT RUN" => (h.jockey = "J. Smith" /\ h.odds = Some("5-1"))

\* The entries of each shape have been made horses.
EntryShapesParsed ==
    /\ RacesReturned
    /\ rawText = EntryShapesText
    /\ Len(races) = 1
    /\ races[1].horses[1].name = "LUCKY STAR"
    /\ races[1].horses[1].jockey = "Unknown"
    /\ races[1].horses[2].jockey = "R. Cole"

\* C16: the number of every horse of every race is between 1 and 20.
HorseNumbersInRange ==
    \A h \in HorsesBuilt : h.number \in 1..20

\* C19: an amount of 1000 is taken as the purse and an amount of 999 is not:
\* of the two races of the text with these amounts the first has the purse
\* 1000 and the second has none.
PurseFromThousand ==
    (RacesReturned /\ rawText = ThousandPurseText) =>
        /\ Len(races) = 2
        /\ races[1].purse = Some(1000)
        /\ races[2].purse = None

\* C20: the conditions of the open race are those of the four lines after
\* its header (of fewer at the end of the text): each of distance, surface
\* and purse is what the last line of the window that gives it gives, and
\* is absent when no line of the window gives it. h is the header that
\* opened the race, w the window.
WindowScanned ==
    (pc \in {"loop", "assembled", "parsed"} /\ IsSome(currentRace)) =>
        LET h == CHOOSE k \in Headers : k < i /\ \A q \in Headers : q < i => q <= k
            w == {k \in (h + 1)..(h + 4) : k <= Len(lines)}
            last(S) == CHOOSE k \in S : \A q \in S : q <= k
            d == {k \in w : IsSome(extractDistance(lines[k]))}
            f == {k \in w : IsSome(extractSurface(lines[k]))}
            a == {k \in w : IsSome(extractPurse(lines[k]))}
        IN  /\ Val(currentRace).distance =
                  IF d = {} THEN None ELSE extractDistance(lines[last(d)])
            /\ Val(currentRace).surface =
                  IF f = {} THEN None ELSE extractSurface(lines[last(f)])
            /\ Val(currentRace).purse =
                  IF a = {} THEN None ELSE extractPurse(lines[last(a)])

\* The race of the text with conditions on three lines of the window and on
\* the line after it.
WindowOverwritten ==
    /\ RacesReturned
    /\ rawText = WindowText
    /\ Len(races) = 1
    /\ races[1].distance = Some("1 Mile")
    /\ races[1].surface = Some("turf")
    /\ races[1].purse = Some(5000)

\* C14: a second call of parseRaceData on the same text returns a card
\* equal to the card of the first call in every field: track, date, and the
\* races with their ids, numbers, dates, conditions and horses.
ReparseIdentical ==
    (pc = "parsed" /\ IsSome(previous)) => card = previous

\* C21: every entry line after the first header is made a horse of the race
\* its nearest header before it opened, once, whether it lies in the four
\* lines after that header or not: the horses of the open race are the
\* entries read so far of its section, in the order of the lines, and the
\* horses of each race pushed are the entries of its section in that order;
\* entries of equal numbers are all kept.
EntriesAppendedOnce ==
    pc \in {"loop", "assembled", "parsed"} =>
        LET read(h) == {k \in SectionEntries(h) : k < i}
            horsesOf(h) ==
                [n \in 1..Cardinality(read(h)) |->
                    Val(extractHorseFromLine(lines[Kth(read(h), n)]))]
            closed == {h \in RaceHeaders : pc # "loop" \/ SectionEnd(h) < i}
            open == {h \in Headers : h < i /\ SectionEnd(h) >= i}
        IN  /\ Len(races) = Cardinality(closed)
            /\ \A k \in 1..Len(races) : races[k].horses = horsesOf(Kth(closed, k))
            /\ \A h \in open : currentHorses = horsesOf(h)
            /\ (open = {} /\ pc = "loop") => currentHorses = <<>>

\* The race of the text with two entries of the number 1 has three horses.
SameNumbersKept ==
    /\ RacesReturned
    /\ rawText = SameNumberText
    /\ Len(races) = 1
    /\ Len(races[1].horses) = 3
    /\ races[1].horses[1].name = "Furlongs Turf"
    /\ races[1].horses[2].number = 1
    /\ races[1].horses[3].number = 1
    /\ races[1].horses[3].name = "SOLAR FLARE"

\* C22: the loop classifies a line in a fixed order. A line that holds a
\* race header anywhere opens the race of the header's number with no horse
\* and is not tried as an entry, whatever its shape; a line that holds no
\* header is tried as an entry only while a race is open, and an entry adds
\* its horse to the open race and changes nothing else; any other line
\* changes neither the races, nor the open race, nor its horses.
LineCascade ==
    [][(pc = "loop" /\ i <= Len(lines)) =>
          IF IsSome(raceHeaderMatch(lines[i]))
          THEN /\ IsSome(currentRace')
               /\ Val(currentRace').number = parseInt(Val(raceHeaderMatch(lines[i])))
               /\ Val(currentRace').horses = <<>>
               /\ currentHorses' = <<>>
          ELSE IF IsSome(currentRace) /\ IsSome(extractHorseFromLine(lines[i]))
          THEN /\ currentHorses' =
                     Append(currentHorses, Val(extractHorseFromLine(lines[i])))
               /\ UNCHANGED <<races, currentRace>>
          ELSE UNCHANGED <<races, currentRace, currentHorses>>]_vars

\* The header of the shape of an entry opened race 3 and gave no horse to
\* race 1, and the header in the middle of a line closed race 3.
HeaderShapedEntryOpensRace ==
    /\ RacesReturned
    /\ rawText = CascadeText
    /\ IsSome(extractHorseFromLine("3 RACE"))
    /\ Len(races) = 1
    /\ races[1].number = 3
    /\ Len(races[1].horses) = 1
    /\ Val(currentRace).number = 2
    /\ currentHorses = <<>>

\* C25: the surface of a line is that of the first of the vocabularies
\* turf/grass, synthetic/poly, dirt/main, in this order, a keyword of which
\* the line holds, and a line that holds no keyword gives none and leaves the
\* surface of the race as it was: the surface of the open race is that of
\* the last line with a keyword among the four after its header, and is
\* absent when none of them has a keyword.
SurfaceByVocabularyOrder ==
    (pc \in {"loop", "assembled", "parsed"} /\ IsSome(currentRace)) =>
        LET h == CHOOSE k \in Headers : k < i /\ \A q \in Headers : q < i => q <= k
            has(k, words) ==
                \E p \in 1..Len(lines[k]), word \in words :
                    /\ p + Len(word) - 1 <= Len(lines[k])
                    /\ \A n \in 1..Len(word) :
                          ToUpperCh(SubSeq(lines[k], p + n - 1, p + n - 1))
                              = SubSeq(word, n, n)
            keyed == {k \in (h + 1)..(h + 4) :
                         /\ k <= Len(lines)
                         /\ has(k, {"TURF", "GRASS", "SYNTHETIC", "POLY", "DIRT", "MAIN"})}
            last == CHOOSE k \in keyed : \A q \in keyed : q <= k
        IN  Val(currentRace).surface =
                IF keyed = {} THEN None
                ELSE IF has(last, {"TURF", "GRASS"}) THEN Some("turf")
                ELSE IF has(last, {"SYNTHETIC", "POLY"}) THEN Some("synthetic")
                ELSE Some("dirt")

\* The races of the text of the three surface cases: turf for dirt and turf
\* on one line, kept over the lines without a keyword; synthetic for main
\* and poly; none for no keyword.
TurfBeforeDirt ==
    /\ RacesReturned
    /\ rawText = SurfaceText
    /\ Len(races) = 3
    /\ races[1].surface = Some("turf")
    /\ races[2].surface = Some("synthetic")
    /\ races[3].surface = None

\* C26: a race that has been pushed onto races is not changed by any later
\* line: every step of extractRaces leaves the races pushed so far, with
\* their fields and horses, as the first races of the sequence, so the
\* races after any prefix of the lines are a prefix of the races returned.
ClosedRacesKept ==
    [][(pc \in {"loop", "assembled"}) =>
          (Len(races') >= Len(races) /\ SubSeq(races', 1, Len(races)) = races)]_vars

\* The first race of the card of three races, after the card was returned:
\* as it was pushed when the second header was read.
FirstRaceKeptToTheEnd ==
    /\ pc = "parsed"
    /\ rawText = ThreeRaceText
    /\ Len(races) = 3
    /\ races[1].number = 1
    /\ Len(races[1].horses) = 1
    /\ races[1].horses[1].name = "LUCKY STAR"
    /\ Val(card).races[1] = races[1]

\* C27: the conditions of a race are taken from the lines of its own
\* section only: each of distance, surface and purse of the open race, when
\* it has one, is what a line gives that lies after the race's header, among
\* the four lines after it, and before the header of the next race.
WindowWithinSection ==
    (pc \in {"loop", "assembled", "parsed"} /\ IsSome(currentRace)) =>
        LET h == CHOOSE k \in Headers : k < i /\ \A q \in Headers : q < i => q <= k
            own == {k \in (h + 1)..(h + 4) : k < SectionEnd(h)}
            race == Val(currentRace)
        IN  /\ IsSome(race.distance) =>
                  \E k \in own : extractDistance(lines[k]) = race.distance
            /\ IsSome(race.surface) =>
                  \E k \in own : extractSurface(lines[k]) = race.surface
            /\ IsSome(race.purse) =>
                  \E k \in own : extractPurse(lines[k]) = race.purse

----------------------------------------------------------------------------
(* Properties of processFile.                                              *)

\* C5: processFile does not reject; when it has resolved it has a result,
\* and after a throw on its path the result is success false, text '',
\* confidence 0, one error message and no extractedData.
NeverRejects ==
    /\ pc # "rejected"
    /\ pc = "done" => IsSome(result)
    /\ (pc = "done" /\ IsSome(completion) /\ Val(completion).throw) =>
          /\ Val(result).success = FALSE
          /\ Val(result).text = ""
          /\ Val(result).confidence = 0
          /\ Val(result).extractedData = None
          /\ IsSome(Val(result).errors)
          /\ Len(Val(Val(result).errors)) = 1

\* A call that failed in the finally block, after the text was recognised
\* and parsed.
FailedAfterParse ==
    /\ pc = "done"
    /\ "recognize" \in calls
    /\ IsSome(card)
    /\ ~Val(result).success

\* C6: worker.terminate is called once for a worker that createWorker
\* yielded, before processWithTesseract returns or throws, and never
\* otherwise.
WorkerTerminatedOnce ==
    /\ terminations <= workers
    /\ (workers = 1 /\ pc \in {"catch", "done"}) => terminations = 1

\* A call that ended after preprocessImage failed.
PreprocessFailedWorkerTerminated ==
    /\ pc = "done"
    /\ workers = 1
    /\ terminations = 1
    /\ "sharp" \in calls
    /\ "loadLanguage" \notin calls

\* C10: when the text of a pdf was got without error the result has
\* success true and confidence 0.9 when the text is longer than 100
\* characters, 0.5 when it is not, whatever races were parsed. Confidence
\* in hundredths.
PdfConfidenceByLength ==
    (pc = "done" /\ path = "pdf") =>
        /\ Val(result).success
        /\ Val(result).confidence = IF Len(rawText) > 100 THEN 90 ELSE 50

\* A pdf whose text is 100 characters long and holds a race.
PdfTextOfThresholdLength ==
    /\ pc = "done"
    /\ path = "pdf"
    /\ Len(rawText) = 100
    /\ Len(races) = 1
    /\ Val(result).confidence = 50

\* The kinds of file the switch of processFile has a case for.
SupportedKind == FileExtension(fileName) \in {"pdf", "jpg", "jpeg", "png"}

\* C11: a call for a file of a supported kind on whose path no collaborator
\* rejected and that gave no race (no text was recognised, or the text held
\* no race) ends with success true, an extractedData with an empty races
\* sequence and a confidence above 0, on the pdf path and on both image
\* paths.
ZeroRacesSucceed ==
    (/\ pc = "done"
     /\ SupportedKind
     /\ ~(/\ IsSome(completion)
          /\ Val(completion).throw
          /\ Val(completion).value \in Rejections)
     /\ IsSome(card) => Val(card).races = <<>>)
    => /\ Val(result).success
       /\ IsSome(Val(result).extractedData)
       /\ Val(Val(result).extractedData).races = <<>>
       /\ Val(result).confidence > 0

\* C12: for a file of a kind that is not supported no collaborator is
\* called and no worker is got, and the call ends with success false, no
\* text, no extractedData and the one error "Unsupported file type: <kind>".
UnsupportedKindFails ==
    ~SupportedKind =>
        /\ calls = {}
        /\ workers = 0
        /\ pc \in {"processFile", "catch", "done"}
        /\ pc = "done" =>
              /\ Val(result).success = FALSE
              /\ Val(result).text = ""
              /\ Val(result).extractedData = None
              /\ Val(result).errors =
                    Some(<<"Unsupported file type: " \o FileExtension(fileName)>>)

\* A call for a file whose name ends in .txt has ended.
UnsupportedKindRefused ==
    /\ pc = "done"
    /\ fileName = "card.pdf.txt"
    /\ Val(result).errors = Some(<<"Unsupported file type: txt">>)

\* C13: for an image, whenever the cloud recognition did not deliver the
\* text (no client was made, or the call of textDetection failed or found
\* no text), the local recognition is run.
CloudFailureFallsBack ==
    (/\ pc = "done"
     /\ FileExtension(fileName) \in {"jpg", "jpeg", "png"}
     /\ path # "vision")
    => "createWorker" \in calls

\* C17: the confidence of every result is between 0 and 1: 0 on failure, 0.9
\* or 0.5 on the pdf path, 0.85 or 0.7 on the cloud path, the confidence the
\* engine reported, over 100, on the local path. Confidence in hundredths.
ConfidenceInUnitRange ==
    pc = "done" =>
        /\ Val(result).confidence \in 0..100
        /\ ~Val(result).success => Val(result).confidence = 0
        /\ (Val(result).success /\ path = "pdf") =>
              Val(result).confidence \in {90, 50}
        /\ (Val(result).success /\ path = "vision") =>
              Val(result).confidence \in {85, 70}
        /\ (Val(result).success /\ path = "tesseract") =>
              Val(result).confidence = engineConfidence

\* A local recognition that ended well with an engine confidence of 87.
LocalConfidenceReported ==
    /\ pc = "done"
    /\ path = "tesseract"
    /\ Val(result).success
    /\ Val(result).confidence = 87

\* C18: whatever the order of the steps of the calls, a call that ends well
\* has the text of its own document and the card parsed from it: one race,
\* with the number and the horse of that document and no other.
CallsIndependent ==
    \A c \in DOMAIN jobs :
        (jobs[c].at = "done" /\ Val(jobs[c].result).success) =>
            LET r == Val(jobs[c].result)
                rs == Val(r.extractedData).races
            IN  /\ r.text = Documents[c]
                /\ Len(rs) = 1
                /\ rs[1].number = c
                /\ Len(rs[1].horses) = 1
                /\ rs[1].horses[1].number = c
                /\ rs[1].horses[1].name = <<"MIDNIGHT RUN", "SOLAR FLARE">>[c]

\* Two calls on the local path have both ended well, each having written
\* its preprocessed image.
BothLocalCallsDone ==
    /\ ~visionClient
    /\ \A c \in DOMAIN jobs :
          /\ jobs[c].at = "done"
          /\ Val(jobs[c].result).success
          /\ FileExtension(jobs[c].fileName) # "pdf"
    /\ Cardinality(DOMAIN disk) = 4

----------------------------------------------------------------------------
(* Properties of the upload controller.                                    *)

----------------------------------------------------------------------------
(* Properties of the WebSocketService.                                     *)

\* C30: a dispatch of an event calls every callback that was in the list of
\* the event when the dispatch began once: when the forEach has ended, each
\* callback has been called as many times as the list held it at the
\* beginning, whether callbacks threw or unsubscribed themselves or others
\* meanwhile; a callback unsubscribed before the dispatch is not in that
\* list and is not called, and the others are.
DispatchCallsEveryListenerOnce ==
    (IsSome(dispatch) /\ Val(dispatch).index > Val(dispatch).length) =>
        \A c \in Callbacks :
            Len(SelectSeq(Val(dispatch).invoked, LAMBDA x : x = c))
                = Len(SelectSeq(Val(dispatch).registered, LAMBDA x : x = c))

====
